---- MODULE Spec2Model ----
(***************************************************************************)
(* Model of the numerical core of openDCM / openGCM:                       *)
(*   - dcm::details::Transform<Scalar,3> (opendcm/core/transformation.hpp) *)
(*   - gcm::parallel and gcm::Parallel3D (opengcm/module3d/parallel.hpp)   *)
(*   - the cluster frame exercised by test/clustermath.cpp                 *)
(*                                                                         *)
(* Scalars are modelled exactly: a Scalar is a reduced fraction <<n, d>>   *)
(* with d > 0.  Square roots are taken exactly; the input sets below hold  *)
(* only rotation arguments whose norm is rational.  A vector norm, which   *)
(* is irrational in general, is carried as the pair <<c, r>> standing for  *)
(* the real number c * sqrt(r), r square-free.  Rounding of the floating   *)
(* point type is not modelled.                                             *)
(***************************************************************************)
EXTENDS Integers, Sequences, FiniteSets, TLC

(***************************************************************************)
(* Bounds of the model.                                                    *)
(***************************************************************************)
MaxOps == 2
MaxScale == 2
MaxCoord == 1
MaxDir == 1
MaxMembers == 2
MaxResets == 2

(***************************************************************************)
(* Scalar arithmetic (Scalar = double, modelled as exact fractions).       *)
(***************************************************************************)
Abs(n) == IF n < 0 THEN -n ELSE n

RECURSIVE GCD(_, _)
GCD(a, b) == IF b = 0 THEN a ELSE GCD(b, a % b)

Reduce(n, d, g) == IF d < 0 THEN <<(-n) \div g, (-d) \div g>> ELSE <<n \div g, d \div g>>
Rat(n, d) == IF d = 1 THEN <<n, 1>> ELSE Reduce(n, d, GCD(Abs(n), Abs(d)))

Num(n) == <<n, 1>>
Zero == Num(0)
One == Num(1)

RAdd(a, b) == Rat(a[1] * b[2] + b[1] * a[2], a[2] * b[2])
RNeg(a) == <<-a[1], a[2]>>
RSub(a, b) == RAdd(a, RNeg(b))
RMul(a, b) == Rat(a[1] * b[1], a[2] * b[2])
RDiv(a, b) == Rat(a[1] * b[2], a[2] * b[1])
RLess(a, b) == a[1] * b[2] < b[1] * a[2]
RGeq(a, b) == ~RLess(a, b)

ISqrt(n) == CHOOSE r \in 0..n : r * r = n
RSqrt(a) == <<ISqrt(a[1]), ISqrt(a[2])>>

(***************************************************************************)
(* Scalars that hold a norm: the real number coef * sqrt(rad), rad a       *)
(* square-free natural, kept canonical (zero is <<Zero, 1>>), so that      *)
(* equality of the pairs is equality of the reals.  NaN (0/0) is           *)
(* <<Zero, 0>>.                                                            *)
(***************************************************************************)
SZero == <<Zero, 1>>
NaN == <<Zero, 0>>
SNum(a) == <<a, 1>>
LargestSquare(n) ==
    CHOOSE k \in 1..n : n % (k * k) = 0 /\ \A j \in (k + 1)..n : n % (j * j) # 0
\* sqrt(a) for a scalar a >= 0
SSqrtOf(m, d, k) == <<Rat(k, d), m \div (k * k)>>
SSqrt(a) ==
    IF a[1] = 0 THEN SZero
    ELSE SSqrtOf(a[1] * a[2], a[2], LargestSquare(a[1] * a[2]))
\* a / x for a scalar a and a norm x; 0/0 is NaN (a numerator that is a dot
\* product with the zero vector is zero whenever the norm is zero)
SDiv(a, x) ==
    IF x = SZero THEN NaN
    ELSE IF a = Zero THEN SZero
    ELSE <<RDiv(a, RMul(x[1], Num(x[2]))), x[2]>>
\* the square of a norm, and the order and the minimum of two norms
SSquare(x) == RMul(RMul(x[1], x[1]), Num(x[2]))
SLeq(x, y) == ~RLess(SSquare(y), SSquare(x))
SMin(x, y) == IF SLeq(x, y) THEN x ELSE y
\* a * x and x + y for values over the same root
SMulR(x, a) == IF a = Zero \/ x[1] = Zero THEN SZero ELSE <<RMul(x[1], a), x[2]>>
SAdd(x, y) ==
    IF x = SZero THEN y
    ELSE IF y = SZero THEN x
    ELSE IF RAdd(x[1], y[1]) = Zero THEN SZero
    ELSE <<RAdd(x[1], y[1]), x[2]>>

(***************************************************************************)
(* Eigen::Matrix<Scalar,3,1>                                               *)
(***************************************************************************)
Vec(x, y, z) == <<Num(x), Num(y), Num(z)>>
VZero == Vec(0, 0, 0)
VAdd(u, v) == <<RAdd(u[1], v[1]), RAdd(u[2], v[2]), RAdd(u[3], v[3])>>
VSub(u, v) == <<RSub(u[1], v[1]), RSub(u[2], v[2]), RSub(u[3], v[3])>>
VNeg(u) == <<RNeg(u[1]), RNeg(u[2]), RNeg(u[3])>>
VMulS(u, s) == <<RMul(u[1], s), RMul(u[2], s), RMul(u[3], s)>>
VDivS(u, s) == <<RDiv(u[1], s), RDiv(u[2], s), RDiv(u[3], s)>>
Dot(u, v) == RAdd(RMul(u[1], v[1]), RAdd(RMul(u[2], v[2]), RMul(u[3], v[3])))
SquaredNorm(u) == Dot(u, u)
Norm(u) == SSqrt(SquaredNorm(u))
VDivNorm(u, x) == <<SDiv(u[1], x), SDiv(u[2], x), SDiv(u[3], x)>>
\* the dot product of a gradient (values over one root) with a vector
SDot(g, v) == SAdd(SMulR(g[1], v[1]), SAdd(SMulR(g[2], v[2]), SMulR(g[3], v[3])))
Cross(u, v) ==
    <<RSub(RMul(u[2], v[3]), RMul(u[3], v[2])),
      RSub(RMul(u[3], v[1]), RMul(u[1], v[3])),
      RSub(RMul(u[1], v[2]), RMul(u[2], v[1]))>>

(***************************************************************************)
(* Eigen::Quaternion<Scalar>, coefficients in constructor order w,x,y,z.   *)
(***************************************************************************)
Quat(w, x, y, z) == <<Num(w), Num(x), Num(y), Num(z)>>
QIdentity == Quat(1, 0, 0, 0)
QVec(q) == <<q[2], q[3], q[4]>>
QSquaredNorm(q) ==
    RAdd(RAdd(RMul(q[1], q[1]), RMul(q[2], q[2])),
         RAdd(RMul(q[3], q[3]), RMul(q[4], q[4])))
QNorm(q) == RSqrt(QSquaredNorm(q))
QDivS(q, s) == <<RDiv(q[1], s), RDiv(q[2], s), RDiv(q[3], s), RDiv(q[4], s)>>
\* Quaternion::normalize / normalized: coeffs / norm
QNormalized(q) == QDivS(q, QNorm(q))
QConjugate(q) == <<q[1], RNeg(q[2]), RNeg(q[3]), RNeg(q[4])>>
\* Quaternion::inverse: conjugate / squaredNorm, the zero quaternion for norm 0
QInverseOf(q, n2) ==
    IF RLess(Zero, n2) THEN QDivS(QConjugate(q), n2) ELSE <<Zero, Zero, Zero, Zero>>
QInverse(q) == QInverseOf(q, QSquaredNorm(q))
\* Quaternion * Quaternion (Hamilton product)
QMul(a, b) ==
    <<RSub(RSub(RMul(a[1], b[1]), RMul(a[2], b[2])),
           RAdd(RMul(a[3], b[3]), RMul(a[4], b[4]))),
      RAdd(RAdd(RMul(a[1], b[2]), RMul(a[2], b[1])),
           RSub(RMul(a[3], b[4]), RMul(a[4], b[3]))),
      RAdd(RAdd(RMul(a[1], b[3]), RMul(a[3], b[1])),
           RSub(RMul(a[4], b[2]), RMul(a[2], b[4]))),
      RAdd(RAdd(RMul(a[1], b[4]), RMul(a[4], b[1])),
           RSub(RMul(a[2], b[3]), RMul(a[3], b[2])))>>
\* Quaternion * Vector3 (QuaternionBase::_transformVector)
QRotateOf(q, v, uv) == VAdd(VAdd(v, VMulS(uv, q[1])), Cross(QVec(q), uv))
QRotate(q, v) == QRotateOf(q, v, VMulS(Cross(QVec(q), v), Num(2)))

(***************************************************************************)
(* Argument sets of the operations.  Rotation arguments are quaternions    *)
(* that are not normalised on entry (norms 1, 2, 2 and 4).                 *)
(***************************************************************************)
RotationArgs == {Quat(1, 0, 0, 0), Quat(0, 2, 0, 0), Quat(1, 1, 1, 1), Quat(2, -2, 2, 2)}
TranslationArgs == {Vec(c, 2 * c, 3 * c) : c \in 0..MaxCoord} \cup {Vec(0, -1, 0)}
ScaleArgs == {Num(s) : s \in 1..MaxScale} \cup {Rat(-1, 2)}
\* an affine basis of the vector space plus one generic vector: two maps of
\* the form v |-> s * (R v + t) that agree on these agree everywhere
Vecs == {Vec(0, 0, 0), Vec(1, 0, 0), Vec(0, 1, 0), Vec(0, 0, 1), Vec(1, -2, 3)}

(***************************************************************************)
(* dcm::details::Transform<Scalar, 3>                                      *)
(***************************************************************************)
Object(r, t, s) == [m_rotation |-> r, m_translation |-> t, m_scale |-> s]

Transform0 == Object(QIdentity, VZero, One)
TransformR(r) == Object(QNormalized(r), VZero, One)
TransformT(t) == Object(QIdentity, t, One)
TransformS(s) == Object(QIdentity, VZero, s)
TransformRT(r, t) == Object(QNormalized(r), t, One)
TransformRTS(r, t, s) == Object(QNormalized(r), t, s)

\* the rotation stored as handed in, not normalised
setRotation_raw(this, rotation) == [this EXCEPT !.m_rotation = rotation]
setRotation(this, rotation) == [this EXCEPT !.m_rotation = QNormalized(rotation)]
rotate(this, rotation) ==
    [this EXCEPT !.m_rotation = QMul(QNormalized(rotation), this.m_rotation)]
setTranslation(this, translation) == [this EXCEPT !.m_translation = translation]
\* the translation replaced instead of composed
translate_overwrite(this, translation) == [this EXCEPT !.m_translation = translation]
translate(this, translation) ==
    [this EXCEPT !.m_translation = VAdd(this.m_translation, translation)]
scale_assign(this, scaling) == [this EXCEPT !.m_scale = scaling]
scale(this, scaling) == [this EXCEPT !.m_scale = RMul(this.m_scale, scaling)]
setScale(this, scaling) == [this EXCEPT !.m_scale = scaling]

invertWith_unscaled(this, rot) ==
    Object(rot, VNeg(QRotate(rot, this.m_translation)), RDiv(One, this.m_scale))
invertWith(this, rot) ==
    Object(rot,
           VMulS(QRotate(rot, this.m_translation), RNeg(this.m_scale)),
           RDiv(One, this.m_scale))
\* the translation negated only, neither rotated nor scaled
invert_negate(this) ==
    Object(QInverse(this.m_rotation), VNeg(this.m_translation), RDiv(One, this.m_scale))
invert(this) == invertWith(this, QInverse(this.m_rotation))
inverse(this) == invert(this)

assignTranslation(this, t) == Object(QIdentity, t, One)
assignScaling(this, s) == Object(QIdentity, VZero, s)
assignRotation(this, r) == Object(QNormalized(r), VZero, One)

\* Transform::rotate(vec), translate(vec), scale(vec), transform(vec)
rotateVec(this, vec) == QRotate(this.m_rotation, vec)
translateVec(this, vec) == VAdd(this.m_translation, vec)
scaleVec(this, vec) == VMulS(vec, this.m_scale)
\* the conventional law scale * rotation * v + translation
transform_conventional(this, vec) ==
    VAdd(VMulS(QRotate(this.m_rotation, vec), this.m_scale), this.m_translation)
transform(this, vec) ==
    VMulS(VAdd(QRotate(this.m_rotation, vec), this.m_translation), this.m_scale)

\* operator*=(const Transform& other), statement by statement
\* the rotations multiplied in the other order
mulRotate_swapped(this, other) ==
    [this EXCEPT !.m_rotation = QMul(this.m_rotation, QNormalized(other.m_rotation))]
mulRotate(this, other) == rotate(this, other.m_rotation)
mulRotateTranslation(this, other) ==
    [this EXCEPT !.m_translation = rotateVec(other, this.m_translation)]
\* the other translation added without the division by the scale
mulAddTranslation_unscaled(this, other) ==
    [this EXCEPT !.m_translation = VAdd(this.m_translation, other.m_translation)]
mulAddTranslation(this, other) ==
    [this EXCEPT !.m_translation =
        VAdd(this.m_translation, VDivS(other.m_translation, this.m_scale))]
mulScale(this, other) ==
    [this EXCEPT !.m_scale = RMul(this.m_scale, other.m_scale)]
opMulAssign(this, other) ==
    mulScale(mulAddTranslation(mulRotateTranslation(mulRotate(this, other), other),
                               other), other)
\* operator*=(other) with other the object itself: every step reads the
\* operand as the steps before it left the object
selfRotate(this) == mulRotate(this, this)
selfRotateTranslation(this) == mulRotateTranslation(this, this)
selfAddTranslation(this) == mulAddTranslation(this, this)
selfScale(this) == mulScale(this, this)
opMulAssignSelf(this) ==
    selfScale(selfAddTranslation(selfRotateTranslation(selfRotate(this))))
\* operator*(const Transform& other): copy, then *=
opMul(this, other) == opMulAssign(this, other)

setIdentity(this) == Object(QIdentity, VZero, One)

\* Eigen::Quaternion::toRotationMatrix
Two == Num(2)
Entry(a, b, c, d) == RMul(Two, RAdd(RMul(a, b), RMul(c, d)))
Diagonal(a, b) == RSub(One, RMul(Two, RAdd(RMul(a, a), RMul(b, b))))
toRotationMatrix(q) ==
    <<<<Diagonal(q[3], q[4]), Entry(q[2], q[3], RNeg(q[1]), q[4]),
        Entry(q[2], q[4], q[1], q[3])>>,
      <<Entry(q[2], q[3], q[1], q[4]), Diagonal(q[2], q[4]),
        Entry(q[3], q[4], RNeg(q[1]), q[2])>>,
      <<Entry(q[2], q[4], RNeg(q[1]), q[3]), Entry(q[3], q[4], q[1], q[2]),
        Diagonal(q[2], q[3])>>>>
MatIdentity == <<Vec(1, 0, 0), Vec(0, 1, 0), Vec(0, 0, 1)>>
MatVec(m, v) == <<Dot(m[1], v), Dot(m[2], v), Dot(m[3], v)>>
Column(m, j) == <<m[1][j], m[2][j], m[3][j]>>
MatMul(m, n) ==
    [i \in 1..3 |-> <<Dot(m[i], Column(n, 1)), Dot(m[i], Column(n, 2)),
                      Dot(m[i], Column(n, 3))>>]
\* Eigen::Transform<Scalar, 3, AffineCompact>: linear part and translation
Affine(linear, translation) == [linear |-> linear, translation |-> translation]
AffineOfMatrix(m) == Affine(m, VZero)
AffineOfTranslation(t) == Affine(MatIdentity, t)
AffineMul(a, b) ==
    Affine(MatMul(a.linear, b.linear),
           VAdd(MatVec(a.linear, b.translation), a.translation))
AffineApply(a, v) == VAdd(MatVec(a.linear, v), a.translation)
transformation(this) ==
    AffineMul(AffineOfMatrix(toRotationMatrix(this.m_rotation)),
              AffineOfTranslation(this.m_translation))
normalize(this) == [this EXCEPT !.m_rotation = QNormalized(this.m_rotation)]

\* the objects an operation can be handed: every constructor over the argument sets
Operands ==
    {TransformRTS(r, t, s) : r \in RotationArgs, t \in TranslationArgs, s \in ScaleArgs}

(***************************************************************************)
(* gcm::parallel: the calculations on the two direction vectors.           *)
(***************************************************************************)
Directions == {"Same", "Opposite", "Both"}

\* the case of the switch that computes the value
\* the test of the Both case negated
calcBranch_negated(d1, d2, dir) ==
    CASE dir = "Same" -> "Same"
      [] dir = "Opposite" -> "Opposite"
      [] dir = "Both" -> IF RGeq(Zero, Dot(d1, d2)) THEN "Same" ELSE "Opposite"
\* the Both case always computing the Same formula
calcBranch_sameOnly(d1, d2, dir) ==
    CASE dir = "Same" -> "Same"
      [] dir = "Opposite" -> "Opposite"
      [] dir = "Both" -> "Same"
calcBranch(d1, d2, dir) ==
    CASE dir = "Same" -> "Same"
      [] dir = "Opposite" -> "Opposite"
      [] dir = "Both" -> IF RGeq(Dot(d1, d2), Zero) THEN "Same" ELSE "Opposite"
calc(d1, d2, dir) ==
    IF calcBranch(d1, d2, dir) = "Same"
    THEN Norm(VSub(d1, d2))
    ELSE Norm(VAdd(d1, d2))

calcGradFirstBranch(d1, d2, dir) ==
    CASE dir = "Same" -> "Same"
      [] dir = "Opposite" -> "Opposite"
      [] dir = "Both" -> IF RGeq(Dot(d1, d2), Zero) THEN "Same" ELSE "Opposite"
calcGradFirst(d1, d2, dd1, dir) ==
    IF calcGradFirstBranch(d1, d2, dir) = "Same"
    THEN SDiv(Dot(VSub(d1, d2), dd1), Norm(VSub(d1, d2)))
    ELSE SDiv(Dot(VAdd(d1, d2), dd1), Norm(VAdd(d1, d2)))

\* the test of the Both case strict: a zero dot product takes the Opposite case
calcGradSecondBranch_strict(d1, d2, dir) ==
    CASE dir = "Same" -> "Same"
      [] dir = "Opposite" -> "Opposite"
      [] dir = "Both" -> IF RLess(Zero, Dot(d1, d2)) THEN "Same" ELSE "Opposite"
calcGradSecondBranch(d1, d2, dir) ==
    CASE dir = "Same" -> "Same"
      [] dir = "Opposite" -> "Opposite"
      [] dir = "Both" -> IF RGeq(Dot(d1, d2), Zero) THEN "Same" ELSE "Opposite"
calcGradSecond(d1, d2, dd2, dir) ==
    IF calcGradSecondBranch(d1, d2, dir) = "Same"
    THEN SDiv(Dot(VSub(d1, d2), VNeg(dd2)), Norm(VSub(d1, d2)))
    ELSE SDiv(Dot(VAdd(d1, d2), dd2), Norm(VAdd(d1, d2)))

\* assert(false): the program aborts, unless the build defines NDEBUG, where
\* the statement is empty and the function returns with grad as it was
AssertFalse(grad, ndebug) == [grad |-> grad, aborted |-> ~ndebug]
Returned(grad) == [grad |-> grad, aborted |-> FALSE]

calcGradFirstComp(d1, d2, grad, dir, ndebug) ==
    CASE dir = "Same" -> Returned(VDivNorm(VSub(d1, d2), Norm(VSub(d1, d2))))
      [] dir = "Opposite" -> Returned(VDivNorm(VAdd(d1, d2), Norm(VAdd(d1, d2))))
      [] dir = "Both" -> AssertFalse(grad, ndebug)
\* the gradient with respect to the first direction returned for the second
calcGradSecondComp_first(d1, d2, grad, dir, ndebug) ==
    CASE dir = "Same" -> Returned(VDivNorm(VSub(d1, d2), Norm(VSub(d1, d2))))
      [] dir = "Opposite" -> Returned(VDivNorm(VAdd(d1, d2), Norm(VAdd(d1, d2))))
      [] dir = "Both" -> AssertFalse(grad, ndebug)
calcGradSecondComp(d1, d2, grad, dir, ndebug) ==
    CASE dir = "Same" -> Returned(VDivNorm(VSub(d2, d1), Norm(VSub(d1, d2))))
      [] dir = "Opposite" -> Returned(VDivNorm(VAdd(d2, d1), Norm(VAdd(d1, d2))))
      [] dir = "Both" -> AssertFalse(grad, ndebug)

(***************************************************************************)
(* gcm::Parallel3D<Kernel, Tag1, Tag2>: the parameter blocks.  A line or   *)
(* plane block holds 6 scalars (position, direction), a cylinder block 7   *)
(* (position, direction, radius).                                          *)
(***************************************************************************)
Tags == {"line3D", "cylinder3D"}
head3(b) == <<b[1], b[2], b[3]>>
tail3(b) == <<b[Len(b) - 2], b[Len(b) - 1], b[Len(b)]>>
segment3(b, start) == <<b[start + 1], b[start + 2], b[start + 3]>>
setZeroHead3(b) == [i \in 1..Len(b) |-> IF i <= 3 THEN SZero ELSE b[i]]
assignTail3(b, v) == [i \in 1..Len(b) |-> IF i > Len(b) - 3 THEN v[i - (Len(b) - 3)] ELSE b[i]]
assignSegment3(b, start, v) ==
    [i \in 1..Len(b) |-> IF i > start /\ i <= start + 3 THEN v[i - start] ELSE b[i]]

\* the direction sub-vector the specialisation hands to gcm::parallel
direction(tag, param) == IF tag = "line3D" THEN tail3(param) ELSE segment3(param, 3)
assignDirection(tag, b, v) ==
    IF tag = "line3D" THEN assignTail3(b, v) ELSE assignSegment3(b, 3, v)

calculate(tag, p1, p2, dir) == calc(direction(tag, p1), direction(tag, p2), dir)
calculateGradientFirst(tag, p1, p2, dp1, dir) ==
    calcGradFirst(direction(tag, p1), direction(tag, p2), direction(tag, dp1), dir)
calculateGradientSecond(tag, p1, p2, dp2, dir) ==
    calcGradSecond(direction(tag, p1), direction(tag, p2), direction(tag, dp2), dir)
\* gradient.head<3>().setZero(), then the call that writes the direction part
storeGradient(tag, zeroed, call) ==
    [gradient |-> assignDirection(tag, zeroed, call.grad), aborted |-> call.aborted]
calculateGradientFirstComplete(tag, p1, p2, grad, dir, ndebug) ==
    storeGradient(tag, setZeroHead3(grad),
        calcGradFirstComp(direction(tag, p1), direction(tag, p2),
                          direction(tag, setZeroHead3(grad)), dir, ndebug))
calculateGradientSecondComplete(tag, p1, p2, grad, dir, ndebug) ==
    storeGradient(tag, setZeroHead3(grad),
        calcGradSecondComp(direction(tag, p1), direction(tag, p2),
                           direction(tag, setZeroHead3(grad)), dir, ndebug))

\* the inputs of the constraint
DirectionArgs ==
    {Vec(x, y, z) : x \in (-MaxDir)..MaxDir, y \in {-1, 0, 1}, z \in {-1, 0, 1}}
Deltas == {Vec(1, 0, 0), Vec(0, 1, 0), Vec(0, 0, 1), Vec(1, -2, 3)}
GradientFill == {SZero, SNum(Num(7))}
Block(tag, pos, dir, radius) == IF tag = "line3D" THEN pos \o dir ELSE pos \o dir \o <<radius>>
Filled(tag, x) == IF tag = "line3D" THEN [i \in 1..6 |-> x] ELSE [i \in 1..7 |-> x]

(***************************************************************************)
(* State.                                                                  *)
(*   self, lastOp, nops : one Transform object, the operation applied to   *)
(*                        it last, and the number of operations so far     *)
(*   opA, opB, opC      : operands of the algebraic laws                   *)
(*   res1, res2, apc    : results of the operations applied to them, and   *)
(*                        which operation produced them                    *)
(*   m_dir, tag         : a Parallel3D constraint and its specialisation   *)
(*   param1, param2     : the parameter blocks of its two geometries       *)
(*   dparam, gradient   : the variation block and the gradient block       *)
(*   residual, gradFirst, gradSecond : the values returned                 *)
(*   branch             : the case of the switch each function computed    *)
(*   ppc, aborted       : the function called last; whether it aborted     *)
(*   m_transform        : the frame of a cluster                           *)
(*   geometries         : its members in insertion order, each with its    *)
(*                        offset, its coordinate in the frame (m_toplocal) *)
(*                        and its global coordinate as computed last       *)
(*                        (m_rotated), and the coordinate it was           *)
(*                        registered with (global)                         *)
(*   bound, cpc, nresets: whether the working storage is bound, the        *)
(*                        operation called last, the number of resets      *)
(*   prevTransform, prevGeometries : frame and members before the last     *)
(*                        resetClusterRotation                             *)
(*   midpoint, scaleValue : the midpoint and the value computed by the     *)
(*                        last calculateClusterScale                       *)
(*   scaled, appliedScale : whether a scale is applied, and which          *)
(*   preScale           : the global positions of the members when the     *)
(*                        scale was applied                                *)
(*   recalculated       : whether the positions were recomputed since the  *)
(*                        scale was applied                                *)
(*   test, tpc, trans   : the cluster test that runs, its next statement   *)
(*                        and its local transform                          *)
(*   lifecycle, since   : the state of the lifecycle state machine after   *)
(*                        the calls of the test, and the calls made since  *)
(*                        the members were cleared last                    *)
(***************************************************************************)
VARIABLES self, lastOp, nops, opA, opB, opC, res1, res2, apc,
          m_dir, tag, param1, param2, dparam, gradient, residual, gradFirst,
          gradSecond, branch, ppc, aborted,
          m_transform, geometries, bound, cpc, nresets, prevTransform,
          prevGeometries, midpoint, scaleValue, scaled, appliedScale, preScale,
          recalculated, test, tpc, trans, lifecycle, since

objectVars == <<self, lastOp, nops>>
algebraVars == <<opA, opB, opC, res1, res2, apc>>
parallelVars ==
    <<m_dir, tag, param1, param2, dparam, gradient, residual, gradFirst,
      gradSecond, branch, ppc, aborted>>
resetVars == <<nresets, prevTransform, prevGeometries>>
scaleVars == <<midpoint, scaleValue, scaled, appliedScale, preScale, recalculated>>
testVars == <<test, tpc, trans, lifecycle, since>>
clusterVars == <<m_transform, geometries, bound, cpc, resetVars, scaleVars, testVars>>
vars == <<objectVars, algebraVars, parallelVars, clusterVars>>

ObjectIdle == self = Transform0 /\ lastOp = "idle" /\ nops = 0
AlgebraIdle ==
    /\ opA = Transform0 /\ opB = Transform0 /\ opC = Transform0
    /\ res1 = Transform0 /\ res2 = Transform0 /\ apc = "idle"
TestIdle ==
    /\ test = "none" /\ tpc = 0 /\ trans = Transform0
    /\ lifecycle = "Unbound" /\ since = {}
ClusterIdle ==
    /\ m_transform = Transform0 /\ geometries = <<>> /\ bound = FALSE
    /\ cpc = "idle" /\ nresets = 0
    /\ prevTransform = Transform0 /\ prevGeometries = <<>>
    /\ midpoint = VZero /\ scaleValue = SZero /\ scaled = FALSE
    /\ appliedScale = One /\ preScale = <<>> /\ recalculated = FALSE
    /\ TestIdle
NoBranch == [calc |-> "none", first |-> "none", second |-> "none"]
ParallelIdle ==
    /\ m_dir = "Same" /\ tag = "line3D"
    /\ param1 = Filled("line3D", Zero) /\ param2 = Filled("line3D", Zero)
    /\ dparam = Filled("line3D", Zero) /\ gradient = Filled("line3D", SZero)
    /\ residual = SZero /\ gradFirst = SZero /\ gradSecond = SZero
    /\ branch = NoBranch /\ ppc = "idle" /\ aborted = FALSE

(***************************************************************************)
(* The Transform object under an arbitrary sequence of constructors and    *)
(* mutating operations.                                                    *)
(***************************************************************************)
ObjectInit == self = Transform0 /\ lastOp = "Transform" /\ nops = 0

Apply(op, result) ==
    /\ nops < MaxOps
    /\ self' = result
    /\ lastOp' = op
    /\ nops' = nops + 1
    /\ UNCHANGED <<algebraVars, parallelVars, clusterVars>>

Construct0 == Apply("Transform", Transform0)
ConstructR == \E r \in RotationArgs : Apply("Transform(r)", TransformR(r))
ConstructT == \E t \in TranslationArgs : Apply("Transform(t)", TransformT(t))
ConstructS == \E s \in ScaleArgs : Apply("Transform(s)", TransformS(s))
ConstructRT ==
    \E r \in RotationArgs, t \in TranslationArgs :
        Apply("Transform(r,t)", TransformRT(r, t))
ConstructRTS ==
    \E r \in RotationArgs, t \in TranslationArgs, s \in ScaleArgs :
        Apply("Transform(r,t,s)", TransformRTS(r, t, s))
SetRotation == \E r \in RotationArgs : Apply("setRotation", setRotation(self, r))
Rotate == \E r \in RotationArgs : Apply("rotate", rotate(self, r))
SetTranslation ==
    \E t \in TranslationArgs : Apply("setTranslation", setTranslation(self, t))
Translate == \E t \in TranslationArgs : Apply("translate", translate(self, t))
SetScale == \E s \in ScaleArgs : Apply("setScale", setScale(self, s))
Scale == \E s \in ScaleArgs : Apply("scale", scale(self, s))
Invert == Apply("invert", invert(self))
AssignTranslation ==
    \E t \in TranslationArgs : Apply("operator=(t)", assignTranslation(self, t))
AssignScaling == \E s \in ScaleArgs : Apply("operator=(s)", assignScaling(self, s))
AssignRotation ==
    \E r \in RotationArgs : Apply("operator=(r)", assignRotation(self, r))
MulAssign == \E o \in Operands : Apply("operator*=", opMulAssign(self, o))
SetIdentity == Apply("setIdentity", setIdentity(self))
Normalize == Apply("normalize", normalize(self))

Init == ObjectInit /\ AlgebraIdle /\ ParallelIdle /\ ClusterIdle
Next ==
    \/ Construct0 \/ ConstructR \/ ConstructT \/ ConstructS \/ ConstructRT
    \/ ConstructRTS
    \/ SetRotation \/ Rotate \/ SetTranslation \/ Translate \/ SetScale \/ Scale
    \/ Invert
    \/ AssignTranslation \/ AssignScaling \/ AssignRotation
    \/ MulAssign
    \/ SetIdentity \/ Normalize
Spec == Init /\ [][Next]_vars

(***************************************************************************)
(* The algebraic laws of Transform: the operands are drawn from the        *)
(* constructed objects and each action applies the operations of one law.  *)
(***************************************************************************)
ThirdOperands ==
    {TransformRTS(Quat(1, 1, 1, 1), Vec(0, -1, 0), Num(MaxScale)),
     TransformRTS(Quat(0, 2, 0, 0), Vec(1, 2, 3), Rat(-1, 2))}

AlgebraInit ==
    /\ opA \in Operands
    /\ opB \in Operands
    /\ opC \in ThirdOperands
    /\ res1 = Transform0
    /\ res2 = Transform0
    /\ apc = "start"

Step(from, to, r1, r2) ==
    /\ apc = from
    /\ apc' = to
    /\ res1' = r1
    /\ res2' = r2
    /\ UNCHANGED <<opA, opB, opC>>
    /\ UNCHANGED <<objectVars, parallelVars, clusterVars>>

\* res1 = A * B
Compose == Step("start", "A*B", opMul(opA, opB), res2)
\* res1 = (A * B) * C
ComposeLeft == Step("A*B", "(A*B)*C", opMul(res1, opC), res2)
\* res2 = B * C
ComposeBC == Step("(A*B)*C", "B*C", res1, opMul(opB, opC))
\* res2 = A * (B * C)
ComposeRight == Step("B*C", "A*(B*C)", res1, opMul(opA, res2))
\* res1 = A.inverse()
Inverse == Step("start", "inverse", inverse(opA), res2)
\* res2 = A * A.inverse()
ComposeInverse == Step("inverse", "A*inverse", res1, opMul(opA, res1))
\* res1 = A.rotate(r), res2 = A * Transform(r), with r the rotation of B
RotateSingle ==
    Step("start", "rotate", rotate(opA, opB.m_rotation),
         opMul(opA, TransformR(opB.m_rotation)))
\* res1 = A.translate(t), res2 = A * Transform(t), with t the translation of B
TranslateSingle ==
    Step("start", "translate", translate(opA, opB.m_translation),
         opMul(opA, TransformT(opB.m_translation)))
\* res1 = A.scale(s), res2 = A * Transform(s), with s the scale of B
ScaleSingle ==
    Step("start", "scale", scale(opA, opB.m_scale),
         opMul(opA, TransformS(opB.m_scale)))

InitAlgebra == AlgebraInit /\ ObjectIdle /\ ParallelIdle /\ ClusterIdle
\* res1 = A after A *= A, res2 = A * A0 with A0 a copy of A
ComposeSelf == Step("start", "A*=A", opMulAssignSelf(opA), opMul(opA, opA))

\* res1 = A.transformation()
Transformation == Step("start", "transformation", transformation(opA), res2)

NextAlgebra ==
    \/ Compose \/ ComposeLeft \/ ComposeBC \/ ComposeRight
    \/ Inverse \/ ComposeInverse
    \/ RotateSingle \/ TranslateSingle \/ ScaleSingle
    \/ ComposeSelf
    \/ Transformation
SpecAlgebra == InitAlgebra /\ [][NextAlgebra]_vars

(***************************************************************************)
(* A Parallel3D constraint: its functions called on one pair of parameter  *)
(* blocks.                                                                 *)
(***************************************************************************)
ParallelInit ==
    /\ m_dir \in Directions
    /\ tag \in Tags
    /\ \E d1 \in DirectionArgs, d2 \in DirectionArgs :
        /\ param1 = Block(tag, Vec(1, 2, 3), d1, Num(2))
        /\ param2 = Block(tag, Vec(0, -1, 0), d2, Num(3))
    /\ dparam = Filled(tag, Zero)
    /\ gradient = Filled(tag, SZero)
    /\ residual = SZero /\ gradFirst = SZero /\ gradSecond = SZero
    /\ branch = NoBranch
    /\ ppc = "start"
    /\ aborted = FALSE

D1 == direction(tag, param1)
D2 == direction(tag, param2)
\* the norm the selected case divides by is zero
degenerate ==
    \/ m_dir = "Same" /\ D1 = D2
    \/ m_dir = "Opposite" /\ D1 = VNeg(D2)

Calculate ==
    /\ ppc = "start"
    /\ residual' = calculate(tag, param1, param2, m_dir)
    /\ branch' = [branch EXCEPT !.calc = calcBranch(D1, D2, m_dir)]
    /\ ppc' = "calculate"
    /\ UNCHANGED <<m_dir, tag, param1, param2, dparam, gradient, gradFirst,
                   gradSecond, aborted>>
    /\ UNCHANGED <<objectVars, algebraVars, clusterVars>>

CalculateGradientFirst ==
    /\ ppc = "calculate"
    /\ \E delta \in Deltas :
        /\ dparam' = Block(tag, Vec(1, 1, 1), delta, Num(1))
        /\ gradFirst' = calculateGradientFirst(tag, param1, param2, dparam', m_dir)
    /\ branch' = [branch EXCEPT !.first = calcGradFirstBranch(D1, D2, m_dir)]
    /\ ppc' = "calculateGradientFirst"
    /\ UNCHANGED <<m_dir, tag, param1, param2, gradient, residual, gradSecond,
                   aborted>>
    /\ UNCHANGED <<objectVars, algebraVars, clusterVars>>

CalculateGradientSecond ==
    /\ ppc = "calculateGradientFirst"
    /\ gradSecond' = calculateGradientSecond(tag, param1, param2, dparam, m_dir)
    /\ branch' = [branch EXCEPT !.second = calcGradSecondBranch(D1, D2, m_dir)]
    /\ ppc' = "calculateGradientSecond"
    /\ UNCHANGED <<m_dir, tag, param1, param2, dparam, gradient, residual,
                   gradFirst, aborted>>
    /\ UNCHANGED <<objectVars, algebraVars, clusterVars>>

Complete(from, to, call) ==
    /\ ppc = from
    /\ ~aborted
    /\ gradient' = call.gradient
    /\ aborted' = call.aborted
    /\ ppc' = to
    /\ UNCHANGED <<m_dir, tag, param1, param2, dparam, residual, gradFirst,
                   gradSecond, branch>>
    /\ UNCHANGED <<objectVars, algebraVars, clusterVars>>

CalculateGradientFirstComplete ==
    \E fill \in GradientFill, ndebug \in BOOLEAN :
        Complete("calculate", "calculateGradientFirstComplete",
                 calculateGradientFirstComplete(tag, param1, param2,
                                                Filled(tag, fill), m_dir, ndebug))

CalculateGradientSecondComplete ==
    \E fill \in GradientFill, ndebug \in BOOLEAN :
        Complete("calculateGradientFirstComplete", "calculateGradientSecondComplete",
                 calculateGradientSecondComplete(tag, param1, param2,
                                                 Filled(tag, fill), m_dir, ndebug))

InitParallel == ParallelInit /\ ObjectIdle /\ AlgebraIdle /\ ClusterIdle
NextParallel ==
    \/ Calculate
    \/ CalculateGradientFirst
    \/ CalculateGradientSecond
    \/ CalculateGradientFirstComplete
    \/ CalculateGradientSecondComplete
SpecParallel == InitParallel /\ [][NextParallel]_vars

(***************************************************************************)
(* dcm::details::ClusterMath: the cluster frame and its members            *)
(* (the class is exercised by test/clustermath.cpp; its operations are     *)
(* modelled from their specification).                                     *)
(***************************************************************************)
ClusterFrames ==
    {TransformRTS(Quat(1, 1, 1, 1), Vec(s, 2 * s, 3 * s), Num(s)) : s \in 1..MaxScale}
        \cup {TransformRTS(Quat(0, 2, 0, 0), Vec(0, -1, 0), Rat(-1, 2)), Transform0}
GlobalPoints == {Vec(c, -c, 2 * c) : c \in 0..MaxCoord} \cup {Vec(3, 0, -1)}

\* addGeometry: the member's coordinate in the frame is frame^-1(global)
newMember(frame, members, g) ==
    [m_offset |-> Len(members),
     m_toplocal |-> transform(inverse(frame), g),
     m_rotated |-> g,
     global |-> g]
addGeometry(frame, members, g) == Append(members, newMember(frame, members, g))
\* resetClusterRotation: every m_toplocal becomes newFrame^-1(frame(m_toplocal))
resetClusterRotation(frame, members, newFrame) ==
    [i \in 1..Len(members) |->
        [members[i] EXCEPT !.m_toplocal =
            transform(inverse(newFrame), transform(frame, members[i].m_toplocal))]]
\* recalculate: m_rotated = frame.transform(m_toplocal)
recalculate(frame, members) ==
    [i \in 1..Len(members) |->
        [members[i] EXCEPT !.m_rotated = transform(frame, members[i].m_toplocal)]]

\* clearGeometry: all members dropped
clearGeometry(members) == <<>>
\* calculateClusterScale: the midpoint is the mean of the m_toplocal
RECURSIVE VSum(_, _)
VSum(members, n) ==
    IF n = 0 THEN VZero ELSE VAdd(VSum(members, n - 1), members[n].m_toplocal)
clusterMidpoint(members) == VDivS(VSum(members, Len(members)), Num(Len(members)))
RECURSIVE SquaredDistanceSum(_, _, _)
SquaredDistanceSum(members, mid, n) ==
    IF n = 0 THEN Zero
    ELSE RAdd(SquaredDistanceSum(members, mid, n - 1),
              SquaredNorm(VSub(members[n].m_toplocal, mid)))
\* calculateClusterScale: exactly 0 for one member, else the root mean square
\* distance of the members from the midpoint
calculateClusterScale(members) ==
    IF Len(members) = 1 THEN SZero
    ELSE SSqrt(RDiv(SquaredDistanceSum(members, clusterMidpoint(members), Len(members)),
                    Num(Len(members))))
\* applyClusterScale: while the scale s is applied the positions are computed
\* through the frame scaled by 1/s
applyClusterScale(frame, s) == scale(frame, RDiv(One, s))
\* finishCalculation: the factor is removed from every recomputed m_rotated
finishCalculation(members, s) ==
    [i \in 1..Len(members) |->
        [members[i] EXCEPT !.m_rotated = VMulS(members[i].m_rotated, s)]]
\* the global positions the frame gives the members
positions(frame, members) ==
    [i \in 1..Len(members) |-> transform(frame, members[i].m_toplocal)]

\* scale factors a caller applies
ScaleFactors == {Num(s) : s \in 2..MaxScale} \cup {Rat(1, 2)}

ClusterInit ==
    /\ m_transform \in ClusterFrames
    /\ geometries = <<>>
    /\ bound = FALSE
    /\ cpc = "constructed"
    /\ nresets = 0
    /\ prevTransform = m_transform
    /\ prevGeometries = <<>>
    /\ midpoint = VZero
    /\ scaleValue = SZero
    /\ scaled = FALSE
    /\ appliedScale = One
    /\ preScale = <<>>
    /\ recalculated = FALSE

math_initFixMaps ==
    /\ ~bound
    /\ bound' = TRUE
    /\ cpc' = "initFixMaps"
    /\ UNCHANGED <<m_transform, geometries, resetVars, scaleVars>>

InitFixMaps ==
    /\ math_initFixMaps
    /\ UNCHANGED testVars
    /\ UNCHANGED <<objectVars, algebraVars, parallelVars>>

math_addGeometry ==
    /\ bound
    /\ ~scaled
    /\ Len(geometries) < MaxMembers
    /\ \E g \in GlobalPoints : geometries' = addGeometry(m_transform, geometries, g)
    /\ cpc' = "addGeometry"
    /\ UNCHANGED <<m_transform, bound, resetVars, scaleVars>>

AddGeometry ==
    /\ math_addGeometry
    /\ UNCHANGED testVars
    /\ UNCHANGED <<objectVars, algebraVars, parallelVars>>

math_resetClusterRotation(newFrame) ==
    /\ bound
    /\ Len(geometries) > 0
    /\ nresets < MaxResets
    /\ geometries' = resetClusterRotation(m_transform, geometries, newFrame)
    /\ m_transform' = newFrame
    /\ prevTransform' = m_transform
    /\ prevGeometries' = geometries
    /\ nresets' = nresets + 1
    /\ cpc' = "resetClusterRotation"
    /\ UNCHANGED <<bound, scaleVars>>

ResetClusterRotation ==
    /\ \E newFrame \in ClusterFrames : math_resetClusterRotation(newFrame)
    /\ UNCHANGED testVars
    /\ UNCHANGED <<objectVars, algebraVars, parallelVars>>

math_recalculate ==
    /\ bound
    /\ Len(geometries) > 0
    /\ geometries' =
           recalculate(IF scaled THEN applyClusterScale(m_transform, appliedScale)
                       ELSE m_transform,
                       geometries)
    /\ recalculated' = scaled
    /\ cpc' = "recalculate"
    /\ UNCHANGED <<m_transform, bound, resetVars, midpoint, scaleValue, scaled,
                   appliedScale, preScale>>

Recalculate ==
    /\ math_recalculate
    /\ UNCHANGED testVars
    /\ UNCHANGED <<objectVars, algebraVars, parallelVars>>

math_calculateClusterScale ==
    /\ bound
    /\ Len(geometries) > 0
    /\ midpoint' = clusterMidpoint(geometries)
    /\ scaleValue' = calculateClusterScale(geometries)
    /\ cpc' = "calculateClusterScale"
    /\ UNCHANGED <<m_transform, geometries, bound, resetVars, scaled, appliedScale,
                   preScale, recalculated>>

CalculateClusterScale ==
    /\ math_calculateClusterScale
    /\ UNCHANGED testVars
    /\ UNCHANGED <<objectVars, algebraVars, parallelVars>>

math_applyClusterScale ==
    /\ bound
    /\ Len(geometries) > 0
    /\ ~scaled
    /\ \E s \in ScaleFactors : appliedScale' = s
    /\ scaled' = TRUE
    /\ recalculated' = FALSE
    /\ preScale' = positions(m_transform, geometries)
    /\ cpc' = "applyClusterScale"
    /\ UNCHANGED <<m_transform, geometries, bound, resetVars, midpoint, scaleValue>>

ApplyClusterScale ==
    /\ math_applyClusterScale
    /\ UNCHANGED testVars
    /\ UNCHANGED <<objectVars, algebraVars, parallelVars>>

math_finishCalculation ==
    /\ bound
    /\ scaled
    /\ recalculated
    /\ geometries' = finishCalculation(geometries, appliedScale)
    /\ scaled' = FALSE
    /\ cpc' = "finishCalculation"
    /\ UNCHANGED <<m_transform, bound, resetVars, midpoint, scaleValue, appliedScale,
                   preScale, recalculated>>

FinishCalculation ==
    /\ math_finishCalculation
    /\ UNCHANGED testVars
    /\ UNCHANGED <<objectVars, algebraVars, parallelVars>>

math_clearGeometry ==
    /\ bound
    /\ Len(geometries) > 0
    /\ geometries' = clearGeometry(geometries)
    /\ midpoint' = VZero
    /\ scaleValue' = SZero
    /\ scaled' = FALSE
    /\ appliedScale' = One
    /\ preScale' = <<>>
    /\ recalculated' = FALSE
    /\ bound' = FALSE
    /\ cpc' = "clearGeometry"
    /\ prevTransform' = m_transform
    /\ prevGeometries' = <<>>
    /\ UNCHANGED <<m_transform, nresets>>

ClearGeometry ==
    /\ math_clearGeometry
    /\ UNCHANGED testVars
    /\ UNCHANGED <<objectVars, algebraVars, parallelVars>>

InitCluster == ClusterInit /\ TestIdle /\ ObjectIdle /\ AlgebraIdle /\ ParallelIdle
NextCluster ==
    \/ InitFixMaps
    \/ AddGeometry
    \/ ResetClusterRotation
    \/ Recalculate
SpecCluster == InitCluster /\ [][NextCluster]_vars

\* The cluster through a scaled calculation: members are registered, the scale
\* is computed and applied, the positions are recomputed, the calculation is
\* finished and the members are cleared.
NextScale ==
    \/ InitFixMaps
    \/ AddGeometry
    \/ CalculateClusterScale
    \/ ApplyClusterScale
    \/ Recalculate
    \/ FinishCalculation
    \/ ClearGeometry
SpecScale == InitCluster /\ [][NextScale]_vars

(***************************************************************************)
(* The cluster tests.  A test is the sequence of the calls it makes on the *)
(* cluster; a statement of the test is one step.                           *)
(***************************************************************************)
\* clustermath_scaling: one pass of the loop with i members
scalingPass(i) ==
    [j \in 1..i |-> "addGeometry"] \o
        <<"calculateClusterScale", "applyClusterScale", "clearGeometry", "initFixMaps">>
RECURSIVE scalingPasses(_)
scalingPasses(i) == IF i = 0 THEN <<>> ELSE scalingPasses(i - 1) \o scalingPass(i)
clustermath_scaling == <<"initFixMaps">> \o scalingPasses(MaxMembers)
clustermath_identityhandling_scaleFirst ==
    <<"initFixMaps", "m_transform", "addGeometry", "addGeometry",
      "resetClusterRotation", "recalculate", "resetClusterRotation", "recalculate",
      "m_transform", "initMaps", "applyClusterScale", "calculateClusterScale",
      "recalculate", "finishCalculation">>
clustermath_identityhandling ==
    <<"initFixMaps", "m_transform", "addGeometry", "addGeometry",
      "resetClusterRotation", "recalculate", "resetClusterRotation", "recalculate",
      "m_transform", "initMaps", "calculateClusterScale", "applyClusterScale",
      "recalculate", "finishCalculation">>
Tests == {"clustermath_scaling", "clustermath_identityhandling"}
program(t) ==
    IF t = "clustermath_scaling" THEN clustermath_scaling
    ELSE clustermath_identityhandling

\* The lifecycle of the cluster frame: Unbound -> Populating -> Normalized
\* (the scale computed, then applied) -> Iterating -> Finalized -> Unbound.
\* A call the state does not allow is rejected.
lifecycleStep(state, call) ==
    CASE call = "m_transform" -> state
      [] state = "Unbound" /\ call \in {"initFixMaps", "initMaps"} -> "Populating"
      [] state = "Populating" /\ call = "addGeometry" -> "Populating"
      [] state = "Populating" /\ call = "calculateClusterScale" -> "Normalized"
      [] state = "Normalized" /\ call = "applyClusterScale" -> "Iterating"
      [] state = "Iterating" /\ call \in {"recalculate", "resetClusterRotation"} ->
             "Iterating"
      [] state = "Iterating" /\ call = "finishCalculation" -> "Finalized"
      [] state = "Finalized" /\ call = "clearGeometry" -> "Unbound"
      [] OTHER -> "Rejected"

\* initMaps: the working storage is bound again, the members stay
math_initMaps ==
    /\ bound' = TRUE
    /\ cpc' = "initMaps"
    /\ UNCHANGED <<m_transform, geometries, resetVars, scaleVars>>
\* math.m_transform = trans
math_m_transform ==
    /\ m_transform' = trans
    /\ cpc' = "m_transform"
    /\ UNCHANGED <<geometries, bound, resetVars, scaleVars>>

TestInit ==
    /\ m_transform = Transform0
    /\ geometries = <<>>
    /\ bound = FALSE
    /\ cpc = "constructed"
    /\ nresets = 0
    /\ prevTransform = Transform0
    /\ prevGeometries = <<>>
    /\ midpoint = VZero
    /\ scaleValue = SZero
    /\ scaled = FALSE
    /\ appliedScale = One
    /\ preScale = <<>>
    /\ recalculated = FALSE
    /\ test \in Tests
    /\ tpc = 1
    /\ trans \in ClusterFrames
    /\ lifecycle = "Unbound"
    /\ since = {}

\* the next statement of the test is the call
Statement(call) ==
    /\ test \in Tests
    /\ tpc <= Len(program(test))
    /\ program(test)[tpc] = call
    /\ tpc' = tpc + 1
    /\ lifecycle' = lifecycleStep(lifecycle, call)
    /\ since' = IF call = "clearGeometry" THEN {} ELSE since \cup {call}
    /\ UNCHANGED <<test, trans>>
    /\ UNCHANGED <<objectVars, algebraVars, parallelVars>>

TestInitFixMaps == Statement("initFixMaps") /\ math_initFixMaps
TestAssignTransform == Statement("m_transform") /\ math_m_transform
TestAddGeometry == Statement("addGeometry") /\ math_addGeometry
TestResetClusterRotation ==
    Statement("resetClusterRotation") /\ math_resetClusterRotation(trans)
TestRecalculate == Statement("recalculate") /\ math_recalculate
TestInitMaps == Statement("initMaps") /\ math_initMaps
TestCalculateClusterScale ==
    Statement("calculateClusterScale") /\ math_calculateClusterScale
TestApplyClusterScale == Statement("applyClusterScale") /\ math_applyClusterScale
TestFinishCalculation == Statement("finishCalculation") /\ math_finishCalculation
TestClearGeometry == Statement("clearGeometry") /\ math_clearGeometry

InitTests == TestInit /\ ObjectIdle /\ AlgebraIdle /\ ParallelIdle
NextTests ==
    \/ TestInitFixMaps
    \/ TestAssignTransform
    \/ TestAddGeometry
    \/ TestResetClusterRotation
    \/ TestRecalculate
    \/ TestInitMaps
    \/ TestCalculateClusterScale
    \/ TestApplyClusterScale
    \/ TestFinishCalculation
    \/ TestClearGeometry
SpecTests == InitTests /\ [][NextTests]_vars

(***************************************************************************)
(* Claims.                                                                 *)
(***************************************************************************)
\* C1: the transform produced by compose(A, B) applied to v equals B applied
\* to A(v), and its fields are rotation' = B.rotation * A.rotation,
\* translation' = B.rotation * A.translation + B.translation / A.scale,
\* scale' = A.scale * B.scale.
C1_ComposeLaw ==
    apc = "A*B" =>
        /\ \A v \in Vecs : transform(res1, v) = transform(opB, transform(opA, v))
        /\ res1.m_rotation = QMul(opB.m_rotation, opA.m_rotation)
        /\ res1.m_translation =
               VAdd(QRotate(opB.m_rotation, opA.m_translation),
                    VDivS(opB.m_translation, opA.m_scale))
        /\ res1.m_scale = RMul(opA.m_scale, opB.m_scale)
C1_Witness ==
    /\ apc = "A*B"
    /\ opA.m_scale = Num(2)
    /\ opA.m_translation = Vec(1, 2, 3)
    /\ opB.m_translation = Vec(0, -1, 0)
    /\ opA.m_rotation = QNormalized(Quat(1, 1, 1, 1))
    /\ opB.m_rotation = QNormalized(Quat(0, 2, 0, 0))

\* C2: invert(T) applied to T(v) returns v, compose(T, invert(T)) maps v to
\* v, and invert sets rotation' = rotation^-1, translation' = (rotation' *
\* translation) * (-scale), scale' = 1/scale.
C2_InverseLaw ==
    /\ apc \in {"inverse", "A*inverse"} =>
        /\ \A v \in Vecs : transform(res1, transform(opA, v)) = v
        /\ QMul(res1.m_rotation, opA.m_rotation) = QIdentity
        /\ res1.m_translation =
               VMulS(QRotate(res1.m_rotation, opA.m_translation), RNeg(opA.m_scale))
        /\ RMul(res1.m_scale, opA.m_scale) = One
    /\ apc = "A*inverse" => \A v \in Vecs : transform(res2, v) = v
C2_Witness ==
    /\ apc = "A*inverse"
    /\ opA.m_scale = Rat(-1, 2)
    /\ opA.m_translation = Vec(1, 2, 3)
    /\ opA.m_rotation = QNormalized(Quat(2, -2, 2, 2))

\* C3: composition is associative in its action:
\* ((A * B) * C)(v) = (A * (B * C))(v) for every vector v.
C3_Associative ==
    apc = "A*(B*C)" => \A v \in Vecs : transform(res1, v) = transform(res2, v)
C3_Witness ==
    /\ apc = "A*(B*C)"
    /\ opA.m_scale = Num(2)
    /\ opB.m_scale = Rat(-1, 2)
    /\ opA.m_translation = Vec(1, 2, 3)
    /\ opB.m_translation = Vec(0, -1, 0)
    /\ opA.m_rotation = QNormalized(Quat(0, 2, 0, 0))
    /\ opB.m_rotation = QNormalized(Quat(2, -2, 2, 2))
    /\ opC.m_rotation = QNormalized(Quat(1, 1, 1, 1))

\* C4: after every sequence of constructors and mutating operations with
\* non-zero rotation arguments the stored rotation has unit norm.
C4_RotationUnitNorm == QSquaredNorm(self.m_rotation) = One
C4_Witness ==
    /\ lastOp = "operator*="
    /\ nops = MaxOps
    /\ self.m_rotation = QNormalized(Quat(2, -2, 2, 2))
    /\ self.m_scale # One

\* C5 (as claimed): rotate(r), translate(t) and scale(s) yield the same
\* transform as compose(A, Transform(r)), compose(A, Transform(t)) and
\* compose(A, Transform(s)).
C5_SingleFieldIsCompose == apc \in {"rotate", "translate", "scale"} => res1 = res2
\* C5 (amended): scale(s) yields the same transform as compose(A,
\* Transform(s)).  rotate(r) and translate(t) yield the rotation and the scale
\* of compose(A, Transform(r)) and compose(A, Transform(t)), but rotate leaves
\* the translation as it was where compose rotates it by r, and translate
\* adds t where compose adds t / A.scale; the transforms are the same exactly
\* when r * A.translation = A.translation, and when t / A.scale = t.
C5_SingleFieldLaw ==
    /\ apc = "scale" => res1 = res2
    /\ apc = "rotate" =>
        /\ res1.m_rotation = res2.m_rotation
        /\ res1.m_scale = res2.m_scale
        /\ res1.m_translation = opA.m_translation
        /\ res2.m_translation = QRotate(opB.m_rotation, opA.m_translation)
        /\ res1 = res2 <=> QRotate(opB.m_rotation, opA.m_translation) = opA.m_translation
    /\ apc = "translate" =>
        /\ res1.m_rotation = res2.m_rotation
        /\ res1.m_scale = res2.m_scale
        /\ res1.m_translation = VAdd(opA.m_translation, opB.m_translation)
        /\ res2.m_translation =
               VAdd(opA.m_translation, VDivS(opB.m_translation, opA.m_scale))
        /\ res1 = res2 <=> VDivS(opB.m_translation, opA.m_scale) = opB.m_translation
C5_Witness ==
    /\ apc = "rotate"
    /\ opA.m_translation = Vec(1, 2, 3)
    /\ opB.m_rotation = QNormalized(Quat(1, 1, 1, 1))
    /\ res1 # res2

\* C6: for dir = Both, calc, calcGradFirst and calcGradSecond compute the same
\* case of the switch on the same d1, d2: the Same formula exactly when
\* dot(d1, d2) >= 0, the Opposite formula otherwise.
C6_SameBranch ==
    (ppc = "calculateGradientSecond" /\ m_dir = "Both") =>
        /\ branch.calc = branch.first
        /\ branch.calc = branch.second
        /\ branch.calc = "Same" <=> RGeq(Dot(D1, D2), Zero)
        /\ branch.calc = "Opposite" <=> RLess(Dot(D1, D2), Zero)
C6_Witness ==
    /\ ppc = "calculateGradientSecond"
    /\ m_dir = "Both"
    /\ Dot(D1, D2) = Zero
    /\ D1 # VZero /\ D2 # VZero
    /\ branch.second = "Same"

\* C7: calculateGradientFirstComplete / calculateGradientSecondComplete
\* (calcGradFirstComp / calcGradSecondComp) abort with dir = Both and never
\* return to the caller; with dir = Same or Opposite they never abort.
C7_BothAborts ==
    ppc \in {"calculateGradientFirstComplete", "calculateGradientSecondComplete"} =>
        (aborted <=> m_dir = "Both")

\* C8: after calculateGradientFirstComplete / calculateGradientSecondComplete
\* returns (dir Same or Opposite) every component of the gradient block that
\* is not a direction component is zero, whatever the block held on entry.
C8_NonDirectionZero ==
    (/\ ppc \in {"calculateGradientFirstComplete", "calculateGradientSecondComplete"}
     /\ m_dir \in {"Same", "Opposite"}
     /\ ~aborted) =>
        \A i \in (1..Len(gradient)) \ (4..6) : gradient[i] = SZero

\* C9: residual(d, d, Same) = 0, residual(d, -d, Opposite) = 0,
\* residual(d, d, Both) = 0 and residual(d, -d, Both) = 0, for every d
\* including the zero vector.
C9_ResidualZero ==
    (/\ ppc = "calculate"
     /\ \/ m_dir = "Same" /\ D2 = D1
        \/ m_dir = "Opposite" /\ D2 = VNeg(D1)
        \/ m_dir = "Both" /\ D2 = D1
        \/ m_dir = "Both" /\ D2 = VNeg(D1)) =>
        residual = SZero
C9_Witness ==
    /\ ppc = "calculate"
    /\ m_dir = "Both"
    /\ D1 = Vec(1, -1, 1)
    /\ D2 = VNeg(D1)
    /\ residual = SZero

\* C10: resetRotation(newFrame) preserves every member's global position:
\* newFrame(newTopLocal) = oldFrame(oldTopLocal) with newTopLocal =
\* newFrame^-1(oldFrame(oldTopLocal)); this holds after any number of
\* consecutive resets (the position stays the one the member was registered
\* with), and resetting to the frame in use leaves every topLocal unchanged.
C10_ResetPreservesGlobal ==
    /\ cpc = "resetClusterRotation" =>
        /\ Len(geometries) = Len(prevGeometries)
        /\ \A i \in 1..Len(geometries) :
            /\ transform(m_transform, geometries[i].m_toplocal) =
                   transform(prevTransform, prevGeometries[i].m_toplocal)
            /\ geometries[i].m_toplocal =
                   transform(inverse(m_transform),
                             transform(prevTransform, prevGeometries[i].m_toplocal))
            /\ m_transform = prevTransform =>
                   geometries[i].m_toplocal = prevGeometries[i].m_toplocal
    /\ nresets > 0 =>
        \A i \in 1..Len(geometries) :
            transform(m_transform, geometries[i].m_toplocal) = geometries[i].global
C10_Witness ==
    /\ cpc = "resetClusterRotation"
    /\ nresets = MaxResets
    /\ Len(geometries) = MaxMembers
    /\ m_transform # prevTransform
    /\ m_transform.m_scale # One
    /\ prevTransform.m_scale # One
    /\ geometries[1].m_toplocal # prevGeometries[1].m_toplocal
    /\ geometries[1].global # VZero

C12_TestsFollowLifecycle == lifecycle # "Rejected"
\* C12, amended: in the tests the storage is bound before a member is added,
\* the scale is computed before it is applied, and a calculation is finished
\* only after its scale was applied and the positions were recomputed; a
\* rotation reset or a recalculation with no scale applied, and a clear of a
\* calculation that was not finished, are calls the tests make.
C12_TestOrder ==
    /\ cpc = "addGeometry" => (bound /\ since \cap {"initFixMaps", "initMaps"} # {})
    /\ cpc = "calculateClusterScale" => "addGeometry" \in since
    /\ cpc = "applyClusterScale" => "calculateClusterScale" \in since
    /\ cpc = "finishCalculation" =>
           ({"applyClusterScale", "recalculate"} \subseteq since /\ recalculated)
    /\ (test = "clustermath_identityhandling" /\ tpc = 6) =>
           (cpc = "resetClusterRotation" /\ ~scaled /\ "applyClusterScale" \notin since)
    /\ (test = "clustermath_scaling" /\ cpc = "clearGeometry") =>
           lifecycle = "Rejected"
C12_Witness ==
    /\ test = "clustermath_identityhandling"
    /\ tpc = Len(clustermath_identityhandling) + 1
    /\ cpc = "finishCalculation"
    /\ lifecycle = "Rejected"
    /\ Len(geometries) = 2
    /\ geometries[1].m_rotated = geometries[1].global

C14_AliasedIsCopy == apc = "A*=A" => res1 = res2

\* C15: for every pair d1, d2, residual(d1, d2, Both) is the smaller of
\* residual(d1, d2, Same) and residual(d1, d2, Opposite): the test
\* dot(d1, d2) >= 0 of the Both case picks the formula with the minimum value.
C15_BothIsMinimum ==
    (ppc = "calculate" /\ m_dir = "Both") =>
        /\ residual = SMin(calc(D1, D2, "Same"), calc(D1, D2, "Opposite"))
        /\ SLeq(residual, Norm(VSub(D1, D2)))
        /\ SLeq(residual, Norm(VAdd(D1, D2)))
C15_Witness ==
    /\ ppc = "calculate"
    /\ m_dir = "Both"
    /\ RLess(Dot(D1, D2), Zero)
    /\ residual = calc(D1, D2, "Opposite")
    /\ residual # calc(D1, D2, "Same")
    /\ residual # SZero

\* C16: for dir Same or Opposite and d1, d2 not degenerate in that case, the
\* directional gradient is the dot product of the full gradient with the
\* variation delta: calcGradFirst(d1, d2, delta, dir) =
\* calcGradFirstComp(d1, d2, dir) . delta, calcGradSecond(d1, d2, delta, dir) =
\* calcGradSecondComp(d1, d2, dir) . delta, and calcGradSecond(d1, d2, delta,
\* dir) = calcGradFirst(d2, d1, delta, dir).
C16_DirectionalIsDot ==
    (/\ ppc = "calculateGradientSecond"
     /\ m_dir \in {"Same", "Opposite"}
     /\ ~degenerate) =>
        /\ gradFirst =
               SDot(calcGradFirstComp(D1, D2, <<SZero, SZero, SZero>>, m_dir, FALSE).grad,
                    direction(tag, dparam))
        /\ gradSecond =
               SDot(calcGradSecondComp(D1, D2, <<SZero, SZero, SZero>>, m_dir, FALSE).grad,
                    direction(tag, dparam))
        /\ gradSecond = calcGradFirst(D2, D1, direction(tag, dparam), m_dir)
C16_Witness ==
    /\ ppc = "calculateGradientSecond"
    /\ m_dir = "Opposite"
    /\ ~degenerate
    /\ D1 = Vec(1, -1, 1)
    /\ D2 = Vec(0, 1, 1)
    /\ direction(tag, dparam) = Vec(1, -2, 3)
    /\ gradFirst[2] = 5
    /\ gradFirst # SZero

\* C17: the affine matrix returned by transformation() does not depend on the
\* scale and maps every vector v to rotation * v + translation; hence for a
\* transform with scale 1 the matrix applied to v equals transform(v).
C17_AffineIsTransform ==
    apc = "transformation" =>
        /\ res1 = transformation(setScale(opA, One))
        /\ \A v \in Vecs :
            /\ AffineApply(res1, v) =
                   VAdd(QRotate(opA.m_rotation, v), opA.m_translation)
            /\ opA.m_scale = One => AffineApply(res1, v) = transform(opA, v)

====
